---- MODULE Spec2Model ----
(***************************************************************************)
(* Model of src/vec_db.py: class VecDB, an IVF (inverted file) index over  *)
(* a flat file of float32 vectors.                                         *)
(*                                                                         *)
(* The database file is a sequence of rows; row i occupies the bytes       *)
(* [i * DIMENSION * ELEMENT_SIZE, (i+1) * DIMENSION * ELEMENT_SIZE).       *)
(* A vector is one of a few DIMENSION-long vectors lying in the plane of   *)
(* the first two coordinates, written <<x, y>> (all other coordinates 0).  *)
(* The coordinates are small non-negative integers, so every dot product   *)
(* and every comparison of two cosine scores is exact.                     *)
(*                                                                         *)
(* The index directory holds one posting file "<label>.bin" per label      *)
(* written by the build, and "centroids.bin".                              *)
(*                                                                         *)
(* One writer (constructor, insert_records) runs _build_index step by      *)
(* step, one file-system operation per step; one reader runs retrieve      *)
(* step by step, one file read per step.  The accessors get_one_row and    *)
(* get_rows are single steps.                                              *)
(***************************************************************************)
EXTENDS Integers, Sequences, FiniteSets, TLC

\* ---------------------------------------------------------------- constants

DIMENSION == 70
ELEMENT_SIZE == 4

\* ------------------------------------------------------------------- bounds

\* largest number of rows the store is allowed to reach
MaxRecords == 4
\* largest db_size given to the constructor
MaxInitSize == 2
\* largest number of rows in one insert_records call
MaxInsert == 2
\* largest top_k given to retrieve
MaxTopK == 4
\* largest number of ids given to get_rows
MaxIds == 2

\* rows a caller may insert: two collinear vectors
Vectors == {<<1, 0>>, <<2, 0>>}
\* queries given to retrieve
Queries == {<<1, 0>>, <<1, 1>>}

VARIABLES
    db_exists,      \* the file db_path exists
    db,             \* the rows of the file db_path, row id i at position i+1
    index,          \* the directory index_path (see NoIndex)
    no_centroids,   \* self.no_centroids
    wpc,            \* writer: "idle", "cluster", "clear", "write"
    rows,           \* writer: the argument of the running insert_records
    labels,         \* writer: labels of the running _build_index (row i at i+1)
    centroids,      \* writer: centroids of the running _build_index
    wk,             \* writer: write_file_records calls the running build has made
    lastBuild,      \* outcome of the last _build_index: "none", "ok", "failed"
    published,      \* the index directory as the last completed build left it
    rpc,            \* reader: "idle", "gather", "done", "error"
    query,          \* reader: query
    top_k,          \* reader: top_k
    top_centroids,  \* reader: centroid ids chosen by _get_top_centroids
    rci,            \* reader: next position of top_centroids to read
    ids,            \* reader: ids gathered so far
    scored,         \* reader: the list zip(scores, ids), a score kept as its vector
    results,        \* reader: the ids returned
    undisturbed,    \* reader: no writer step since retrieve started on a built index
    ret             \* the accessor call just made and the value it returned

storeVars == <<db_exists, db>>
writerVars == <<no_centroids, wpc, rows, labels, centroids, wk, lastBuild, published>>
readerVars == <<rpc, query, top_k, top_centroids, rci, ids, scored, results, undisturbed>>
vars == <<db_exists, db, index, no_centroids, wpc, rows, labels, centroids, wk,
          lastBuild, published, rpc, query, top_k, top_centroids, rci, ids,
          scored, results, undisturbed, ret>>

\* ------------------------------------------------------------------ helpers

Min(a, b) == IF a < b THEN a ELSE b

Range(s) == {s[i] : i \in DOMAIN s}

RECURSIVE Concat(_)
Concat(ss) == IF ss = <<>> THEN <<>> ELSE Head(ss) \o Concat(Tail(ss))

\* np.dot of two vectors
Dot(a, b) == a[1] * b[1] + a[2] * b[2]

\* squared Euclidean distance, the measure of kmeans.predict
Dist2(a, b) == Dot(<<a[1] - b[1], a[2] - b[2]>>, <<a[1] - b[1], a[2] - b[2]>>)

\* dot(a, q) / (norm(a) * norm(q)) > dot(b, q) / (norm(b) * norm(q)),
\* decided exactly: all coordinates are >= 0 and no vector is zero
ScoreGreater(a, b, q) == Dot(a, q) * Dot(a, q) * Dot(b, b) > Dot(b, q) * Dot(b, q) * Dot(a, a)

ScoreEqual(a, b, q) == Dot(a, q) * Dot(a, q) * Dot(b, b) = Dot(b, q) * Dot(b, q) * Dot(a, a)

\* ------------------------------------------------------------- vector store

\* os.path.getsize(self.db_path)
FileSize(file) == Len(file) * DIMENSION * ELEMENT_SIZE

_get_num_records(file) == FileSize(file) \div (DIMENSION * ELEMENT_SIZE)

\* rng.random((size, DIMENSION)) with the fixed seed: the same rows for the
\* same size, pairwise distinct and pairwise non-collinear
GenRow(i) == <<i + 1, 1>>

generate_vectors(size) == [i \in 1..size |-> GenRow(i - 1)]

\* insert_records opening the memmap with mode 'w+': the file is created
\* anew and the rows before num_old_records read as zeros
insert_write_truncating(file, new_rows) ==
    [i \in 1..(Len(file) + Len(new_rows)) |->
        IF i <= Len(file) THEN <<0, 0>> ELSE new_rows[i - Len(file)]]

\* the memmap of insert_records: the file grows to full_shape, the rows
\* before num_old_records keep their bytes, the new rows follow
insert_write(file, new_rows) ==
    LET num_old_records == _get_num_records(file)
        num_new_records == Len(new_rows)
    IN  [i \in 1..(num_old_records + num_new_records) |->
            IF i <= num_old_records THEN file[i] ELSE new_rows[i - num_old_records]]

\* get_one_row: the memmap of one row at offset row_num * DIMENSION *
\* ELEMENT_SIZE raises when the row does not lie inside the file, and the
\* except clause returns the formatted message, a str
get_one_row(file, row_num) ==
    LET offset == row_num * DIMENSION * ELEMENT_SIZE
    IN  IF offset >= 0 /\ offset + DIMENSION * ELEMENT_SIZE <= FileSize(file)
        THEN [kind |-> "ndarray", value |-> file[(offset \div (DIMENSION * ELEMENT_SIZE)) + 1]]
        ELSE [kind |-> "str", value |-> <<>>]

\* get_rows, lines 73-83: the ids grouped into runs id, id+1, id+2, ...
\* in the order given; a run is the pair <<start, prev>>
RECURSIVE group_ranges(_, _, _)
group_ranges(rest, start, prev) ==
    IF rest = <<>> THEN << <<start, prev>> >>
    ELSE IF Head(rest) = prev + 1
         THEN group_ranges(Tail(rest), start, Head(rest))
         ELSE << <<start, prev>> >> \o group_ranges(Tail(rest), Head(rest), Head(rest))

\* get_rows, lines 87-92: seek to the start row and read range_size rows;
\* a read past the end of the file returns the rows that exist
read_block(file, start, end) ==
    [i \in 1..(Min(end + 1, Len(file)) - start) |-> file[start + i]]

\* ascending order of a list of ids
SortAsc(id_list) ==
    LET n == Len(id_list)
        rank(i) == 1 + Cardinality({j \in 1..n : id_list[j] < id_list[i]})
                     + Cardinality({j \in 1..(i - 1) : id_list[j] = id_list[i]})
    IN  [p \in 1..n |-> id_list[CHOOSE i \in 1..n : rank(i) = p]]

\* get_rows sorting the ids first, as its first comment announces, and
\* returning the vectors in sorted order
get_rows_sorting(file, id_list) ==
    IF id_list = <<>> THEN <<>>
    ELSE LET sorted == SortAsc(id_list)
             ranges == group_ranges(Tail(sorted), Head(sorted), Head(sorted))
             bad(r) == r[1] < 0 \/ r[2] + 1 > Len(file)
         IN  IF \E j \in DOMAIN ranges : bad(ranges[j]) THEN <<>>
             ELSE Concat([j \in DOMAIN ranges |-> read_block(file, ranges[j][1], ranges[j][2])])

\* get_rows: the vectors of the runs, one block after the other; any
\* exception (no ids, a negative offset, a short block) returns an empty array
get_rows(file, id_list) ==
    IF id_list = <<>> THEN <<>>
    ELSE LET ranges == group_ranges(Tail(id_list), Head(id_list), Head(id_list))
             bad(r) == r[1] < 0 \/ r[2] + 1 > Len(file)
         IN  IF \E j \in DOMAIN ranges : bad(ranges[j]) THEN <<>>
             ELSE Concat([j \in DOMAIN ranges |-> read_block(file, ranges[j][1], ranges[j][2])])

\* --------------------------------------------------------------- index build

\* int(np.sqrt(n)) for the row counts of the model
ISqrt(n) == CHOOSE r \in 0..n : r * r <= n /\ (r + 1) * (r + 1) > n

\* _build_index, lines 176-180
centroid_count(n) ==
    IF n = 20 * 10^6 THEN ISqrt(n) * 6
    ELSE IF n = 15 * 10^6 THEN ISqrt(n) * 5
    ELSE ISqrt(n) * 2

\* kmeans.predict: the label of a row is the id of the nearest centroid,
\* the smallest id among equally near ones
predict(cents, v) ==
    CHOOSE j \in 0..(Len(cents) - 1) :
        /\ \A i \in 0..(Len(cents) - 1) : Dist2(cents[j + 1], v) <= Dist2(cents[i + 1], v)
        /\ \A i \in 0..(j - 1) : Dist2(cents[i + 1], v) > Dist2(cents[j + 1], v)

\* np.where(labels == label)[0]: the row ids with that label, ascending
RECURSIVE where_label(_, _, _)
where_label(labs, label, from) ==
    IF from > Len(labs) THEN <<>>
    ELSE (IF labs[from] = label THEN <<from - 1>> ELSE <<>>) \o where_label(labs, label, from + 1)

\* np.unique(labels)
unique_labels(labs) == Range(labs)

\* the write_file_records calls of lines 197-200 in the order they are
\* made: labels ascending, and for each label its row ids ascending
RECURSIVE write_order(_, _, _)
write_order(labs, label, count) ==
    IF label >= count THEN <<>>
    ELSE (IF label \in unique_labels(labs)
          THEN LET indices == where_label(labs, label, 1)
               IN  [i \in DOMAIN indices |-> <<label, indices[i]>>]
          ELSE <<>>) \o write_order(labs, label + 1, count)

\* the index directory
NoIndex == [dir |-> FALSE, posting |-> <<>>, has_centroids |-> FALSE, centroids |-> <<>>]

\* _build_index without the rmtree: makedirs(exist_ok=True) keeps the files
clear_index_keeping_files(idx) == [idx EXCEPT !.dir = TRUE]

\* lines 191-193: shutil.rmtree then os.makedirs leave an empty directory
clear_index(idx) == [dir |-> TRUE, posting |-> <<>>, has_centroids |-> FALSE, centroids |-> <<>>]

\* write_file_records(path, index): one id appended to the posting file,
\* which is created when it does not exist
write_file_records(idx, label, id) ==
    [idx EXCEPT !.posting =
        [l \in (DOMAIN idx.posting) \cup {label} |->
            IF l = label
            THEN (IF l \in DOMAIN idx.posting THEN Append(idx.posting[l], id) ELSE <<id>>)
            ELSE idx.posting[l]]]

\* write_file_centroids(path, centroids): the centroid file holds the sequence
write_file_centroids(idx, cents) ==
    [idx EXCEPT !.has_centroids = TRUE, !.centroids = cents]

\* the index directory a build with these labels and centroids leaves when
\* every step of it has run
complete_index(labs, cents) ==
    [dir |-> TRUE,
     posting |-> [l \in unique_labels(labs) |-> where_label(labs, l, 1)],
     has_centroids |-> TRUE,
     centroids |-> cents]

\* ------------------------------------------------------------------ retrieve

\* retrieve, lines 132-136
probe_count(n) ==
    IF n <= 10 * 10^6 THEN 12
    ELSE IF n = 15 * 10^6 THEN 10
    ELSE 5

\* _get_top_centroids: heapq.nlargest(k, zip(scores, range(C))) orders the
\* (score, id) tuples descending, so equal scores go by descending id
_get_top_centroids(cents, q, k) ==
    LET C == Len(cents)
        above(i, j) == \/ ScoreGreater(cents[i + 1], cents[j + 1], q)
                       \/ ScoreEqual(cents[i + 1], cents[j + 1], q) /\ i > j
        rank(j) == 1 + Cardinality({i \in 0..(C - 1) : above(i, j)})
    IN  [p \in 1..Min(k, C) |-> CHOOSE j \in 0..(C - 1) : rank(j) = p]

\* zip(scores, ids): as long as the shorter of the two
zip_scores(data, id_list) ==
    [i \in 1..Min(Len(data), Len(id_list)) |-> [vec |-> data[i], id |-> id_list[i]]]

\* heapq.nlargest(top_k, results, key=score): the first top_k of the list
\* sorted by descending score, equal scores staying in list order
nlargest_by_score(k, pairs, q) ==
    LET n == Len(pairs)
        rank(i) == 1 + Cardinality({j \in 1..n : ScoreGreater(pairs[j].vec, pairs[i].vec, q)})
                     + Cardinality({j \in 1..(i - 1) : ScoreEqual(pairs[j].vec, pairs[i].vec, q)})
    IN  [p \in 1..Min(k, n) |-> pairs[CHOOSE i \in 1..n : rank(i) = p]]

\* line 163
ids_of(pairs) == [i \in DOMAIN pairs |-> pairs[i].id]

\* ---------------------------------------------------------------- the state

NoRet == [op |-> "none"]

Init ==
    /\ db_exists = FALSE
    /\ db = <<>>
    /\ index = NoIndex
    /\ no_centroids = 0
    /\ wpc = "idle"
    /\ rows = <<>>
    /\ labels = <<>>
    /\ centroids = <<>>
    /\ wk = 0
    /\ lastBuild = "none"
    /\ published = NoIndex
    /\ rpc = "idle"
    /\ query = <<>>
    /\ top_k = 0
    /\ top_centroids = <<>>
    /\ rci = 0
    /\ ids = <<>>
    /\ scored = <<>>
    /\ results = <<>>
    /\ undisturbed = FALSE
    /\ ret = NoRet

\* ------------------------------------------------------------------- writer

\* __init__ with new_db = True: generate_database writes the rows and
\* starts _build_index
GenerateDatabase(size) ==
    /\ ~db_exists
    /\ wpc = "idle"
    /\ db_exists' = TRUE
    /\ db' = generate_vectors(size)
    /\ rows' = <<>>
    /\ wpc' = "cluster"
    /\ undisturbed' = FALSE
    /\ UNCHANGED <<ret, index, no_centroids, labels, centroids, wk, lastBuild, published>>
    /\ UNCHANGED <<rpc, query, top_k, top_centroids, rci, ids, scored, results>>

\* insert_records: lines 48-53 append the rows, line 55 starts _build_index
insert_records(new_rows) ==
    /\ db_exists
    /\ wpc = "idle"
    /\ Len(db) + Len(new_rows) <= MaxRecords
    /\ db' = insert_write(db, new_rows)
    /\ rows' = new_rows
    /\ wpc' = "cluster"
    /\ undisturbed' = FALSE
    /\ UNCHANGED <<ret, db_exists, index, no_centroids, labels, centroids, wk, lastBuild, published>>
    /\ UNCHANGED <<rpc, query, top_k, top_centroids, rci, ids, scored, results>>

\* MiniBatchKMeans.fit with init = 'k-means++': the centres are count
\* distinct training rows listed in row order, any choice of them that
\* repeats a vector only when no other vector is left to pick;
\* clustering fewer rows than centres raises
kmeans_fit(file, count) ==
    LET spread(cents) == Cardinality(Range(cents)) = Min(count, Cardinality(Range(file)))
        seeds == {f \in [1..count -> 1..Len(file)] :
                     \A a, b \in 1..count : a < b => f[a] < f[b]}
    IN  {cents \in {[j \in 1..count |-> file[seed[j]]] : seed \in seeds} : spread(cents)}

\* _build_index, lines 176-189: the centroid count, the clustering and the
\* label of every row; an exception of the clustering ends the build
BuildCluster ==
    /\ wpc = "cluster"
    /\ LET n == _get_num_records(db)
           c == centroid_count(n)
       IN  /\ no_centroids' = c
           /\ IF c < 1 \/ n < c
              THEN /\ wpc' = "idle"
                   /\ lastBuild' = "failed"
                   /\ rows' = <<>>
                   /\ UNCHANGED <<labels, centroids>>
              ELSE /\ \E cents \in kmeans_fit(db, c) :
                        /\ centroids' = cents
                        /\ labels' = [i \in 1..n |-> predict(cents, db[i])]
                   /\ wpc' = "clear"
                   /\ UNCHANGED <<lastBuild, rows>>
    /\ undisturbed' = FALSE
    /\ UNCHANGED <<ret, db_exists, db, index, wk, published>>
    /\ UNCHANGED <<rpc, query, top_k, top_centroids, rci, ids, scored, results>>

\* _build_index, lines 191-193: the old index directory is removed and an
\* empty one made
BuildClearIndex ==
    /\ wpc = "clear"
    /\ index' = clear_index(index)
    /\ wk' = 0
    /\ wpc' = "write"
    /\ undisturbed' = FALSE
    /\ UNCHANGED <<ret, db_exists, db, no_centroids, rows, labels, centroids, lastBuild, published>>
    /\ UNCHANGED <<rpc, query, top_k, top_centroids, rci, ids, scored, results>>

\* _build_index, lines 197-200: one write_file_records call
BuildWriteRecord ==
    /\ wpc = "write"
    /\ LET order == write_order(labels, 0, no_centroids)
       IN  /\ wk < Len(order)
           /\ index' = write_file_records(index, order[wk + 1][1], order[wk + 1][2])
    /\ wk' = wk + 1
    /\ undisturbed' = FALSE
    /\ UNCHANGED <<ret, db_exists, db, no_centroids, wpc, rows, labels, centroids, lastBuild, published>>
    /\ UNCHANGED <<rpc, query, top_k, top_centroids, rci, ids, scored, results>>

\* _build_index, line 201: the centroid file is written last and the build
\* returns
BuildWriteCentroids ==
    /\ wpc = "write"
    /\ wk = Len(write_order(labels, 0, no_centroids))
    /\ index' = write_file_centroids(index, centroids)
    /\ published' = index'
    /\ wpc' = "idle"
    /\ lastBuild' = "ok"
    /\ rows' = <<>>
    /\ labels' = <<>>
    /\ centroids' = <<>>
    /\ wk' = 0
    /\ undisturbed' = FALSE
    /\ UNCHANGED <<ret, db_exists, db, no_centroids>>
    /\ UNCHANGED <<rpc, query, top_k, top_centroids, rci, ids, scored, results>>

\* _build_index has no handler: an exception raised by a step of it (the
\* clustering, rmtree, makedirs, a file write) leaves it where it is
BuildFails ==
    /\ wpc \in {"cluster", "clear", "write"}
    /\ wpc' = "idle"
    /\ lastBuild' = "failed"
    /\ rows' = <<>>
    /\ labels' = <<>>
    /\ centroids' = <<>>
    /\ wk' = 0
    /\ undisturbed' = FALSE
    /\ UNCHANGED <<ret, db_exists, db, index, no_centroids, published>>
    /\ UNCHANGED <<rpc, query, top_k, top_centroids, rci, ids, scored, results>>

\* ------------------------------------------------------------------- reader

\* read_file_centroids_with_memap and read_file_records_mmap: a file that
\* does not exist cannot be mapped, and the exception leaves retrieve
centroid_file_readable(idx) == idx.dir /\ idx.has_centroids

posting_file_readable(idx, label) == idx.dir /\ label \in DOMAIN idx.posting

\* retrieve, lines 132-139: the probe count and _get_top_centroids, which
\* reads the centroid file
RetrieveStart(q, k) ==
    /\ rpc = "idle"
    /\ db_exists
    /\ query' = q
    /\ top_k' = k
    /\ undisturbed' = (wpc = "idle" /\ lastBuild = "ok")
    /\ IF centroid_file_readable(index)
       THEN /\ top_centroids' = _get_top_centroids(index.centroids, q,
                                                   probe_count(_get_num_records(db)))
            /\ rci' = 1
            /\ rpc' = "gather"
       ELSE /\ rpc' = "error"
            /\ UNCHANGED <<top_centroids, rci>>
    /\ UNCHANGED <<ret, ids, scored, results>>
    /\ UNCHANGED <<storeVars, index, writerVars>>

\* retrieve, lines 145-147: one posting file read
RetrieveReadPosting ==
    /\ rpc = "gather"
    /\ rci <= Len(top_centroids)
    /\ IF posting_file_readable(index, top_centroids[rci])
       THEN /\ ids' = ids \o index.posting[top_centroids[rci]]
            /\ rci' = rci + 1
            /\ UNCHANGED rpc
       ELSE /\ rpc' = "error"
            /\ UNCHANGED <<ids, rci>>
    /\ UNCHANGED <<ret, query, top_k, top_centroids, scored, results, undisturbed>>
    /\ UNCHANGED <<storeVars, index, writerVars>>

\* retrieve, lines 149-164: the rows of the gathered ids, their scores
\* zipped with the ids, the top_k by score, their ids
RetrieveScore ==
    /\ rpc = "gather"
    /\ rci > Len(top_centroids)
    /\ scored' = zip_scores(get_rows(db, ids), ids)
    /\ results' = ids_of(nlargest_by_score(top_k, scored', query))
    /\ rpc' = "done"
    /\ UNCHANGED <<ret, query, top_k, top_centroids, rci, ids, undisturbed>>
    /\ UNCHANGED <<storeVars, index, writerVars>>

\* retrieve has returned or raised; the reader is free for the next call
RetrieveReturn ==
    /\ rpc \in {"done", "error"}
    /\ rpc' = "idle"
    /\ query' = <<>>
    /\ top_k' = 0
    /\ top_centroids' = <<>>
    /\ rci' = 0
    /\ ids' = <<>>
    /\ scored' = <<>>
    /\ results' = <<>>
    /\ undisturbed' = FALSE
    /\ UNCHANGED <<storeVars, index, writerVars, ret>>

\* ---------------------------------------------------------------- accessors

\* a call of get_one_row while no other call runs
GetOneRow(row_num) ==
    /\ db_exists
    /\ wpc = "idle"
    /\ rpc = "idle"
    /\ ret = NoRet
    /\ ret' = [op |-> "get_one_row", arg |-> row_num, n |-> _get_num_records(db),
               value |-> get_one_row(db, row_num)]
    /\ UNCHANGED <<storeVars, index, writerVars, readerVars>>

\* a call of get_rows while no other call runs
GetRows(id_list) ==
    /\ db_exists
    /\ wpc = "idle"
    /\ rpc = "idle"
    /\ ret = NoRet
    /\ ret' = [op |-> "get_rows", arg |-> id_list, n |-> _get_num_records(db),
               value |-> get_rows(db, id_list)]
    /\ UNCHANGED <<storeVars, index, writerVars, readerVars>>

\* the caller has taken the value the accessor returned
AccessorReturn ==
    /\ ret # NoRet
    /\ ret' = NoRet
    /\ UNCHANGED <<storeVars, index, writerVars, readerVars>>

\* -------------------------------------------------------------- specification

\* the sequences of at most n elements of S
SeqsUpTo(S, n) == UNION {[1..m -> S] : m \in 0..n}

\* the steps of the writer
WriterStep ==
    \/ \E size \in 1..MaxInitSize : GenerateDatabase(size)
    \/ \E new_rows \in SeqsUpTo(Vectors, MaxInsert) : insert_records(new_rows)
    \/ BuildCluster
    \/ BuildClearIndex
    \/ BuildWriteRecord
    \/ BuildWriteCentroids
    \/ BuildFails

\* no retrieve and no accessor call is running
WriterTurn == ret = NoRet /\ rpc = "idle"

\* no constructor, no insert_records and no accessor call is running
ReaderTurn == ret = NoRet /\ wpc = "idle"

\* VecDB starts no thread and every call is synchronous: one call runs at a
\* time, each from its first step to its return
Next ==
    \/ \E size \in 1..MaxInitSize : WriterTurn /\ GenerateDatabase(size)
    \/ \E new_rows \in SeqsUpTo(Vectors, MaxInsert) : WriterTurn /\ insert_records(new_rows)
    \/ WriterTurn /\ BuildCluster
    \/ WriterTurn /\ BuildClearIndex
    \/ WriterTurn /\ BuildWriteRecord
    \/ WriterTurn /\ BuildWriteCentroids
    \/ WriterTurn /\ BuildFails
    \/ \E q \in Queries, k \in 1..MaxTopK : ReaderTurn /\ RetrieveStart(q, k)
    \/ ReaderTurn /\ RetrieveReadPosting
    \/ ReaderTurn /\ RetrieveScore
    \/ ReaderTurn /\ RetrieveReturn
    \/ \E row_num \in (-1)..MaxRecords : GetOneRow(row_num)
    \/ \E id_list \in SeqsUpTo(0..(Len(db) - 1), MaxIds) \ {<<>>} : GetRows(id_list)
    \/ AccessorReturn

Spec == Init /\ [][Next]_vars

\* a second process calls retrieve while the first one inserts: the steps
\* of a retrieve interleave with the steps of the rebuild
ConcNext ==
    \/ WriterStep
    \/ \E q \in Queries : RetrieveStart(q, MaxTopK)
    \/ RetrieveReadPosting
    \/ RetrieveScore
    \/ RetrieveReturn

ConcSpec == Init /\ [][ConcNext]_vars

\* ------------------------------------------------------------------- claims

\* the current record count
N == _get_num_records(db)

\* the vector stored at a row id
VecOf(id) == db[id + 1]

\* the (file, position) places of the posting lists that hold a row id
PlacesOf(idx, id) ==
    {e \in UNION {{<<l, p>> : p \in DOMAIN idx.posting[l]} : l \in DOMAIN idx.posting} :
        idx.posting[e[1]][e[2]] = id}

BuildCompleted == wpc = "idle" /\ lastBuild = "ok"

\* C1: after every completed build the posting lists partition the row ids:
\* every entry is an id of [0, N) and every id of [0, N) is at exactly one
\* place of exactly one posting list.
C1_PostingListsPartitionRows ==
    BuildCompleted =>
        /\ \A l \in DOMAIN index.posting : \A p \in DOMAIN index.posting[l] :
               index.posting[l][p] \in 0..(N - 1)
        /\ \A id \in 0..(N - 1) : Cardinality(PlacesOf(index, id)) = 1

\* a build completed after an insert, over an index an earlier build left,
\* with more than one posting list
C1_Witness ==
    /\ BuildCompleted
    /\ N > MaxInitSize
    /\ Cardinality(DOMAIN index.posting) >= 2

\* C2: insert_records(rows) raises the record count by exactly len(rows)
\* and every row id that existed before it holds the same vector after it.
C2_InsertAppendsOnly ==
    [][(db_exists /\ wpc = "idle" /\ wpc' = "cluster") =>
          /\ _get_num_records(db') = _get_num_records(db) + Len(rows')
          /\ \A id \in 0..(N - 1) : get_one_row(db', id) = get_one_row(db, id)]_vars

\* insert_records has just appended rows to a store that held some
C2_Witness ==
    /\ wpc = "cluster"
    /\ Len(rows) >= 2
    /\ N > Len(rows)

\* C3: while a retrieve runs during a rebuild, the index directory is at
\* every step either the complete previous index or the complete new one.
C3_ReaderSeesCompleteIndex ==
    (rpc # "idle" /\ wpc # "idle" /\ published.dir) =>
        \/ index = published
        \/ wpc \in {"clear", "write"} /\ index = complete_index(labels, centroids)

\* C4: a rebuild that fails leaves the previously published index as it was.
C4_FailedRebuildKeepsIndex ==
    (wpc = "idle" /\ lastBuild = "failed" /\ published.dir) => index = published

\* C5: get_one_row of an id outside [0, N) fails with a typed OutOfRange
\* error, and get_one_row never returns an error message for vector data.
C5_OutOfRangeIsTypedError ==
    ret.op = "get_one_row" =>
        /\ ret.value.kind # "str"
        /\ ret.arg \notin 0..(ret.n - 1) => ret.value.kind = "OutOfRange"

\* the cosine score of row a is above that of row b, or equal with a < b
Before(a, b) ==
    \/ ScoreGreater(VecOf(a), VecOf(b), query)
    \/ ScoreEqual(VecOf(a), VecOf(b), query) /\ a < b

\* C6: retrieve returns the ids by descending score with equal scores by
\* ascending id, and every candidate left out comes after every id kept.
C6_TiesByAscendingId ==
    rpc = "done" =>
        /\ \A i, j \in DOMAIN results : i < j => Before(results[i], results[j])
        /\ \A r \in Range(results) : \A c \in Range(ids) \ Range(results) : Before(r, c)

\* C7: on a built index, retrieve with top_k >= N returns every row id
\* exactly once, N ids in all, and does not fail.
C7_OversizedTopKReturnsAllRows ==
    (rpc \in {"done", "error"} /\ undisturbed /\ top_k >= N) =>
        /\ rpc = "done"
        /\ Len(results) = N
        /\ Range(results) = 0..(N - 1)

\* the exhaustive ranking of all rows of the file: descending cosine score,
\* equal scores by ascending id, cut at k
BruteForce(file, q, k) ==
    LET n == Len(file)
        above(a, b) == \/ ScoreGreater(file[a + 1], file[b + 1], q)
                       \/ ScoreEqual(file[a + 1], file[b + 1], q) /\ a < b
        rank(b) == 1 + Cardinality({a \in 0..(n - 1) : above(a, b)})
    IN  [p \in 1..Min(k, n) |-> CHOOSE b \in 0..(n - 1) : rank(b) = p]

\* C8: when the probe count covers every centroid of a built index,
\* retrieve returns what the exhaustive ranking of all rows returns.
C8_FullProbeEqualsBruteForce ==
    (rpc \in {"done", "error"} /\ undisturbed /\ probe_count(N) >= no_centroids) =>
        /\ rpc = "done"
        /\ results = BruteForce(db, query, top_k)

\* C9: after a completed build every centroid id of [0, C) has a posting
\* list in the index.
C9_EveryCentroidHasPostingList ==
    BuildCompleted =>
        \A c \in 0..(Len(index.centroids) - 1) : posting_file_readable(index, c)

====
